---- MODULE Spec2Model ----
(***************************************************************************)
(* Model of the meter clock firmware (src/src/main.cpp): three PWM gauges  *)
(* driven from a DS1307 real-time clock.  Time is counted in milliseconds. *)
(* A program step takes some time and then runs at the new value of        *)
(* millis(); the clock device advances in step.                            *)
(***************************************************************************)
EXTENDS Integers, Naturals, Sequences, FiniteSets, TLC

\* ------------------------------------------------------------------------
\* Program constants
\* ------------------------------------------------------------------------
VU_SEC_PIN == 11
VU_MIN_PIN == 10
VU_HOUR_PIN == 9

Pins == {VU_SEC_PIN, VU_MIN_PIN, VU_HOUR_PIN}

hourVals == <<0, 22, 44, 67, 92, 117, 142, 166, 189, 212, 233, 255>>

minuteVals ==
  <<0,   4,   9,   13,  17,  20,  24,  29,  33,  37,  41,  45,  49,  53,  57,
    62,  66,  71,  75,  79,  83,  87,  92,  96,  100, 105, 109, 114, 118, 123,
    127, 131, 136, 140, 144, 149, 153, 157, 162, 166, 170, 175, 179, 184, 188,
    193, 198, 202, 206, 210, 214, 219, 223, 227, 231, 235, 240, 244, 248, 251>>

updateInterval == 100
sweepLength == 750
MidScale == 128
TestStepDelay == 3
TestPause == 5

\* byte: 8-bit unsigned
ByteMod == 2 ^ 8
Byte == 0 .. 255
ToByte(x) == x % ByteMod

\* unsigned long millisecond counter.  The device counts modulo 2^32; the
\* model counts modulo 2^30 so that every intermediate sum fits the checker's
\* integers.  Differences are taken modulo the width, as unsigned subtraction.
MillisMod == 2 ^ 30

\* a difference that is not taken modulo the width
ULSub_NoWrap(a, b) == IF a >= b THEN a - b ELSE 0

ULSub(a, b) == (a - b + MillisMod) % MillisMod

\* marks the function-local static lastUpdate before its first-call
\* initialisation
NoTime == -1
\* stands for a time more than updateInterval in the past
Old == NoTime - 1

\* ------------------------------------------------------------------------
\* Bounds of the model
\* ------------------------------------------------------------------------
PollStep == 10          \* granularity of the time a display cycle takes, ms
MaxMillis == 8000       \* millis() horizon of the running clock
MaxDrvCalls == 2        \* calls made by the needle-driver harness
MaxLive == 5000         \* millis() horizon of the fixed-target harness
WrapLead == 500         \* ms between the start of the cycle harness and the
                        \* wrap of millis()

\* rtc.now() is a bus transfer and takes most of a cycle; the computation of
\* the targets may fall into a later millisecond than the fetch; the three
\* updateMeter calls follow within the same millisecond.
FetchDelays == {PollStep, 2 * PollStep}
CalcDelays == {0, PollStep}

\* Clock contents at power-up (ms since midnight).  The start-up animation
\* lasts 4605 ms, so the display loop starts 4605 ms later.
DayMs == 24 * 3600000
StartTimes ==
  { 25395,        \* loop starts at 00:00:30.000
    46794595,     \* loop starts at 12:59:59.200, hour/minute/second roll over
    3534595 }     \* loop starts at 00:58:59.200, minute 58 -> 59

\* ------------------------------------------------------------------------
\* Clock device
\* ------------------------------------------------------------------------
RtcHour(ms) == (ms \div 3600000) % 24
RtcMinute(ms) == (ms \div 60000) % 60
RtcSecond(ms) == (ms \div 1000) % 60
RtcNow(ms) == [hour |-> RtcHour(ms), minute |-> RtcMinute(ms), second |-> RtcSecond(ms)]
RtcAdvance(ms, d) == (ms + d) % DayMs

\* ------------------------------------------------------------------------
\* Pure functions of the display cycle
\* ------------------------------------------------------------------------
\* map() rounding to the nearest integer
Map_Rounded(x, in_min, in_max, out_min, out_max) ==
  ((x - in_min) * (out_max - out_min) + (in_max - in_min) \div 2)
     \div (in_max - in_min) + out_min

\* Arduino map(): long arithmetic, division truncating
Map(x, in_min, in_max, out_min, out_max) ==
  ((x - in_min) * (out_max - out_min)) \div (in_max - in_min) + out_min

\* the conversion shifted by one, as for a table indexed from 0
Hour12_Off(h) == IF h = 0 \/ h = 12 THEN 12 ELSE (h % 12) + 1

\* line 110
Hour12(h) == IF h = 0 \/ h = 12 THEN 12 ELSE h % 12

\* the product second * 1000 computed in 16-bit int (without the UL suffix)
CurSecMillis_Int(second, millis, anchor) ==
  ((second * 1000) % 32768) + ULSub(millis, anchor)

\* line 117
CurSecMillis(second, millis, anchor) == second * 1000 + ULSub(millis, anchor)

\* line 119, stored into a byte
NewSec(second, millis, anchor) ==
  ToByte(Map(CurSecMillis(second, millis, anchor), 0, 60000, 0, 255))

NewMin(minute) == minuteVals[minute + 1]
\* the hour table read at hour mod 12, without the conversion of line 110
NewHour_NoConvert(hour) == hourVals[(hour % 12) + 1]

NewHour(hour) == hourVals[(Hour12(hour) - 1) + 1]

\* line 156: byte interval = 255 / (sweepLength / (float)updateInterval)
\* = trunc(255 * updateInterval / sweepLength)
Interval == ToByte((255 * updateInterval) \div sweepLength)

\* ------------------------------------------------------------------------
\* updateMeter as a function of (curVal, targetVal, millis(), lastUpdate):
\* the new curVal, the new lastUpdate and the sequence of levels written to
\* the pin.
\* ------------------------------------------------------------------------
\* line 145: static initialised by the first call
StaticInit(lu, t) == IF lu = NoTime THEN t ELSE lu

\* a rise limited to one step per call
Rise_Stepped(curVal, targetVal) ==
  IF targetVal > curVal
  THEN IF targetVal - curVal > Interval THEN curVal + Interval ELSE targetVal
  ELSE curVal

\* lines 150-152
Rise(curVal, targetVal) == IF targetVal > curVal THEN targetVal ELSE curVal

\* line 162
StepDue(t, lu) == ULSub(t, lu) > updateInterval

\* the falling step without the guard of line 158
Fall_NoClamp(curVal, targetVal, t, lu) ==
  IF targetVal < curVal
  THEN IF StepDue(t, lu)
       THEN [cur |-> ToByte(curVal - Interval), lu |-> t]
       ELSE [cur |-> curVal, lu |-> lu]
  ELSE [cur |-> curVal, lu |-> lu]

\* lines 155-167
Fall(curVal, targetVal, t, lu) ==
  IF targetVal < curVal
  THEN IF Interval > curVal
       THEN [cur |-> 0, lu |-> lu]
       ELSE IF StepDue(t, lu)
            THEN [cur |-> ToByte(curVal - Interval), lu |-> t]
            ELSE [cur |-> curVal, lu |-> lu]
  ELSE [cur |-> curVal, lu |-> lu]

\* line 169
PinWrites(curVal) == <<curVal>>

\* updateMeter without the test of line 148
UpdateMeter_NoSkip(curVal, targetVal, t, lu) ==
  LET f == Fall(Rise(curVal, targetVal), targetVal, t, StaticInit(lu, t))
  IN  [cur |-> f.cur, lu |-> f.lu, writes |-> PinWrites(f.cur)]

\* lines 142-171
UpdateMeter(curVal, targetVal, t, lu) ==
  LET lu0 == StaticInit(lu, t) IN
  IF curVal # targetVal
  THEN LET f == Fall(Rise(curVal, targetVal), targetVal, t, lu0)
       IN  [cur |-> f.cur, lu |-> f.lu, writes |-> PinWrites(f.cur)]
  ELSE [cur |-> curVal, lu |-> lu0, writes |-> << >>]

\* ------------------------------------------------------------------------
\* State
\* ------------------------------------------------------------------------
VARIABLES
  pc,          \* position of the program: setup, halt, testUp, testDown,
               \* fetch, calc, updSec, updMin, updHour; drv in the harness
  now,         \* millis()
  rtcPresent,  \* the clock device answers rtc.begin()
  rtcRunning,  \* rtc.isrunning()
  rtcMs,       \* time of day held by the clock device, ms since midnight
  curTime,     \* global curTime: last snapshot fetched from the clock
  oldSec,      \* local oldSec of getRTCTime
  lastSecond,  \* global lastSecond: anchor of the second sweep
  lastUpdate,  \* static lastUpdate of updateMeter (one for all gauges)
  cur,         \* statics sec, min, hour of displayTime, by pin
  tgt,         \* locals newSec, newMin, newHour of displayTime, by pin
  out,         \* level last written to each pin by analogWrite
  tmPin,       \* which testMeter call of setup is running (1..3)
  tmI,         \* loop variable i of testMeter
  call,        \* record of the latest updateMeter call
  ownUpdate,   \* by pin: time of the pin's own latest falling step, or Old
  downAt,      \* by pin: time of the pin's latest recent downward change
  ran,         \* routines that have run so far
  drv          \* needle-driver harness: pin driven, starting level, calls made

vars == <<pc, now, rtcPresent, rtcRunning, rtcMs, curTime, oldSec, lastSecond,
          lastUpdate, cur, tgt, out, tmPin, tmI, call, ownUpdate, downAt, ran,
          drv>>

TestOrder == <<VU_HOUR_PIN, VU_MIN_PIN, VU_SEC_PIN>>

NoCall ==
  [pin |-> 0, pre |-> 0, target |-> 0, post |-> 0, writes |-> << >>,
   luKept |-> TRUE, ownDue |-> FALSE, downGap |-> NoTime]

NoDrv == [pin |-> 0, from |-> 0, calls |-> 0]

\* DateTime curTime: default-constructed, 2000-01-01 00:00:00
DefaultTime == [hour |-> 0, minute |-> 0, second |-> 0]

Init ==
  /\ pc = "setup"
  /\ now = 0
  /\ rtcPresent \in BOOLEAN
  /\ rtcRunning \in BOOLEAN
  /\ rtcPresent = FALSE => rtcRunning = FALSE
  /\ rtcMs \in StartTimes
  /\ curTime = DefaultTime
  /\ oldSec = 0
  /\ lastSecond = 0
  /\ lastUpdate = NoTime
  /\ cur = [p \in Pins |-> 0]
  /\ tgt = [p \in Pins |-> 0]
  /\ out = [p \in Pins |-> 0]
  /\ tmPin = 1
  /\ tmI = 0
  /\ call = NoCall
  /\ ownUpdate = [p \in Pins |-> NoTime]
  /\ downAt = [p \in Pins |-> NoTime]
  /\ ran = {}
  /\ drv = NoDrv

\* time d passes: millis() and the clock device advance together
Pass(d) ==
  /\ now' = (now + d) % MillisMod
  /\ rtcMs' = IF rtcPresent /\ rtcRunning THEN RtcAdvance(rtcMs, d) ELSE rtcMs

\* ------------------------------------------------------------------------
\* setup(), lines 53-96
\* ------------------------------------------------------------------------
\* setup without the endless loop of lines 77-78
Setup_NoHalt ==
  /\ pc = "setup"
  /\ out' = [p \in Pins |-> IF rtcPresent THEN 0 ELSE MidScale]
  /\ pc' = "testUp"
  /\ IF rtcPresent /\ ~rtcRunning
     THEN /\ rtcMs' = 0
          /\ rtcRunning' = TRUE
          /\ ran' = ran \cup {"adjust"}
     ELSE UNCHANGED <<rtcMs, rtcRunning, ran>>
  /\ UNCHANGED <<now, rtcPresent, curTime, oldSec, lastSecond, lastUpdate, cur,
                 tgt, tmPin, tmI, call, ownUpdate, downAt, drv>>

\* lines 58-88: pins to 0, probe the clock, halt or seed the default time
Setup ==
  /\ pc = "setup"
  /\ IF ~rtcPresent
     THEN /\ out' = [p \in Pins |-> MidScale]
          /\ pc' = "halt"
          /\ UNCHANGED <<rtcMs, rtcRunning, ran>>
     ELSE /\ out' = [p \in Pins |-> 0]
          /\ pc' = "testUp"
          /\ IF ~rtcRunning
             THEN /\ rtcMs' = 0
                  /\ rtcRunning' = TRUE
                  /\ ran' = ran \cup {"adjust"}
             ELSE UNCHANGED <<rtcMs, rtcRunning, ran>>
  /\ UNCHANGED <<now, rtcPresent, curTime, oldSec, lastSecond, lastUpdate, cur,
                 tgt, tmPin, tmI, call, ownUpdate, downAt, drv>>

\* lines 77-78: while (1) {}
Halt ==
  /\ pc = "halt"
  /\ now + PollStep <= MaxMillis
  /\ Pass(PollStep)
  /\ UNCHANGED <<pc, rtcPresent, rtcRunning, curTime, oldSec, lastSecond,
                 lastUpdate, cur, tgt, out, tmPin, tmI, call, ownUpdate, downAt,
                 ran, drv>>

\* lines 177-181: one iteration of the upward loop of testMeter
TestUp ==
  /\ pc = "testUp"
  /\ out' = [out EXCEPT ![TestOrder[tmPin]] = tmI]
  /\ ran' = ran \cup {"testMeter"}
  /\ IF ToByte(tmI + 1) < 255
     THEN /\ tmI' = ToByte(tmI + 1)
          /\ pc' = "testUp"
          /\ Pass(TestStepDelay)
     ELSE /\ tmI' = 255
          /\ pc' = "testDown"
          /\ Pass(TestStepDelay + TestPause)
  /\ UNCHANGED <<rtcPresent, rtcRunning, curTime, oldSec, lastSecond,
                 lastUpdate, cur, tgt, tmPin, call, ownUpdate, downAt, drv>>

\* lines 182-185: one iteration of the downward loop of testMeter, and the
\* return to setup (lines 92-95)
TestDown ==
  /\ pc = "testDown"
  /\ out' = [out EXCEPT ![TestOrder[tmPin]] = tmI]
  /\ Pass(TestStepDelay)
  /\ IF tmI - 1 > 0
     THEN /\ tmI' = tmI - 1
          /\ UNCHANGED <<pc, tmPin>>
     ELSE /\ tmI' = 0
          /\ IF tmPin < Len(TestOrder)
             THEN /\ tmPin' = tmPin + 1
                  /\ pc' = "testUp"
             ELSE /\ tmPin' = tmPin
                  /\ pc' = "fetch"
  /\ UNCHANGED <<rtcPresent, rtcRunning, curTime, oldSec, lastSecond,
                 lastUpdate, cur, tgt, call, ownUpdate, downAt, ran, drv>>

\* ------------------------------------------------------------------------
\* loop() -> displayTime(), lines 98-127
\* ------------------------------------------------------------------------
\* line 107, getRTCTime (lines 194-201)
GetRTCTime(d) ==
  /\ pc = "fetch"
  /\ now + d <= MaxMillis
  /\ Pass(d)
  /\ oldSec' = curTime.second
  /\ curTime' = RtcNow(rtcMs')
  /\ lastSecond' = IF oldSec' < curTime'.second THEN now' ELSE lastSecond
  /\ ran' = ran \cup {"displayTime"}
  /\ pc' = "calc"
  /\ UNCHANGED <<rtcPresent, rtcRunning, lastUpdate, cur, tgt, out, tmPin, tmI,
                 call, ownUpdate, downAt, drv>>

\* the three targets taken from the clock device instead of the snapshot
Targets_Live(d) ==
  /\ pc = "calc"
  /\ now + d <= MaxMillis
  /\ Pass(d)
  /\ tgt' = [p \in Pins |->
               IF p = VU_SEC_PIN
               THEN NewSec(RtcSecond(rtcMs'), now', lastSecond)
               ELSE IF p = VU_MIN_PIN THEN NewMin(RtcMinute(rtcMs'))
               ELSE NewHour(RtcHour(rtcMs'))]
  /\ pc' = "updSec"
  /\ UNCHANGED <<rtcPresent, rtcRunning, curTime, oldSec, lastSecond,
                 lastUpdate, cur, out, tmPin, tmI, call, ownUpdate, downAt, ran,
                 drv>>

\* lines 110-121: the three targets
ComputeTargets(d) ==
  /\ Pass(d)
  /\ tgt' = [p \in Pins |->
               IF p = VU_SEC_PIN THEN NewSec(curTime.second, now', lastSecond)
               ELSE IF p = VU_MIN_PIN THEN NewMin(curTime.minute)
               ELSE NewHour(curTime.hour)]
  /\ pc' = "updSec"
  /\ UNCHANGED <<rtcPresent, rtcRunning, curTime, oldSec, lastSecond,
                 lastUpdate, cur, out, tmPin, tmI, call, ownUpdate, downAt, ran,
                 drv>>

Targets(d) ==
  /\ pc = "calc"
  /\ now + d <= MaxMillis
  /\ ComputeTargets(d)

\* Observation of updateMeter calls (not program state).  ownUpdate[p] follows
\* the time of pin p's own latest falling step (its first call standing for
\* the initial value), and is reduced to Old once more than updateInterval
\* has passed; downAt[p] is the time of p's latest downward change, dropped
\* once updateInterval has passed.
OwnStamp(own, t) == IF own = NoTime THEN t ELSE own
OwnDue(own, t) == own = Old \/ ULSub(t, own) > updateInterval
OwnAged(own, t) == IF OwnDue(own, t) THEN Old ELSE own
DownGap(down, t) ==
  IF down = NoTime THEN NoTime
  ELSE IF ULSub(t, down) >= updateInterval THEN updateInterval
  ELSE ULSub(t, down)
DownAged(down, t) ==
  IF down # NoTime /\ ULSub(t, down) >= updateInterval THEN NoTime ELSE down

\* the effect of one updateMeter(cur[p], target, p) call at time t
Drive(p, target, t) ==
  LET r == UpdateMeter(cur[p], target, t, lastUpdate)
      own0 == OwnStamp(ownUpdate[p], t)
      stepped == r.cur < cur[p] /\ Interval <= cur[p]
      fell == r.cur < cur[p]
  IN  /\ cur' = [cur EXCEPT ![p] = r.cur]
      /\ lastUpdate' = r.lu
      /\ out' = IF r.writes = << >> THEN out
                ELSE [out EXCEPT ![p] = r.writes[Len(r.writes)]]
      /\ call' = [pin |-> p, pre |-> cur[p], target |-> target, post |-> r.cur,
                  writes |-> r.writes,
                  luKept |-> (r.lu = lastUpdate),
                  ownDue |-> OwnDue(own0, t),
                  downGap |-> IF fell THEN DownGap(downAt[p], t) ELSE NoTime]
      /\ ownUpdate' = [ownUpdate EXCEPT ![p] =
                         IF stepped THEN t ELSE OwnAged(own0, t)]
      /\ downAt' = [downAt EXCEPT ![p] =
                      IF fell THEN t ELSE DownAged(downAt[p], t)]

\* lines 124-126
UpdateAt(p, next, d) ==
  /\ Pass(d)
  /\ Drive(p, tgt[p], now')
  /\ pc' = next
  /\ UNCHANGED <<rtcPresent, rtcRunning, curTime, oldSec, lastSecond, tgt,
                 tmPin, tmI, ran, drv>>

Update(p, next, d) ==
  /\ now + d <= MaxMillis
  /\ UpdateAt(p, next, d)

UpdateSec == pc = "updSec" /\ Update(VU_SEC_PIN, "updMin", 0)
UpdateMin == pc = "updMin" /\ Update(VU_MIN_PIN, "updHour", 0)
UpdateHour == pc = "updHour" /\ Update(VU_HOUR_PIN, "fetch", 0)

Next ==
  \/ Setup
  \/ Halt
  \/ TestUp
  \/ TestDown
  \/ \E d \in FetchDelays : GetRTCTime(d)
  \/ \E d \in CalcDelays : Targets(d)
  \/ UpdateSec
  \/ UpdateMin
  \/ UpdateHour

Spec == Init /\ [][Next]_vars

\* ------------------------------------------------------------------------
\* Needle-driver harness: updateMeter called repeatedly on one gauge with a
\* fixed target, from every pair of levels, the calls spaced by the
\* rate-limit interval or one millisecond more.
\* ------------------------------------------------------------------------
DrvStart == 10 * updateInterval
DrvDelays == {updateInterval, updateInterval + 1}

InitDrv ==
  /\ pc = "drv"
  /\ now = DrvStart
  /\ rtcPresent = TRUE
  /\ rtcRunning = TRUE
  /\ rtcMs = 0
  /\ curTime = DefaultTime
  /\ oldSec = 0
  /\ lastSecond = 0
  /\ lastUpdate = DrvStart
  /\ \E p \in Pins, c \in Byte, t \in Byte :
       /\ cur = [q \in Pins |-> IF q = p THEN c ELSE 0]
       /\ tgt = [q \in Pins |-> IF q = p THEN t ELSE 0]
       /\ drv = [pin |-> p, from |-> c, calls |-> 0]
  /\ out = cur
  /\ tmPin = 1
  /\ tmI = 0
  /\ call = NoCall
  /\ ownUpdate = [p \in Pins |-> NoTime]
  /\ downAt = [p \in Pins |-> NoTime]
  /\ ran = {"testMeter", "displayTime"}

DrvCall(d) ==
  /\ pc = "drv"
  /\ drv.calls < MaxDrvCalls
  /\ Pass(d)
  /\ Drive(drv.pin, tgt[drv.pin], now')
  /\ drv' = [drv EXCEPT !.calls = @ + 1]
  /\ UNCHANGED <<pc, rtcPresent, rtcRunning, curTime, oldSec, lastSecond, tgt,
                 tmPin, tmI, ran>>

NextDrv == \E d \in DrvDelays : DrvCall(d)

SpecDrv == InitDrv /\ [][NextDrv]_vars

\* ------------------------------------------------------------------------
\* Display-cycle harness: the computation of the targets and the call for the
\* second gauge, from every second of the minute and every millisecond since
\* the anchor.  The anchor and the latest falling step lie WrapLead ms before
\* the wrap of millis(), so that the cycle runs before the wrap for short
\* elapsed times and after it for long ones.  Hour and minute of the snapshot
\* vary with the choice so that every hour and every minute occurs.
\* ------------------------------------------------------------------------
CycleBase == MillisMod - WrapLead

InitCycle ==
  /\ pc = "calc"
  /\ rtcPresent = TRUE
  /\ rtcRunning = TRUE
  /\ lastSecond = CycleBase
  /\ lastUpdate = CycleBase
  /\ \E s \in 0 .. 59, el \in 0 .. 999 :
       /\ now = (CycleBase + el) % MillisMod
       /\ curTime = [hour |-> ((s + el) % 24), minute |-> ((s + el) % 60),
                     second |-> s]
       /\ oldSec = s
       /\ rtcMs = ((((s + el) % 24) * 60 + ((s + el) % 60)) * 60 + s) * 1000 + el
  /\ cur = [p \in Pins |-> 255]
  /\ tgt = [p \in Pins |-> 0]
  /\ out = cur
  /\ tmPin = 1
  /\ tmI = 0
  /\ call = NoCall
  /\ ownUpdate = [p \in Pins |-> NoTime]
  /\ downAt = [p \in Pins |-> NoTime]
  /\ ran = {"testMeter", "displayTime"}
  /\ drv = NoDrv

CycleTargets(d) == pc = "calc" /\ ComputeTargets(d)
CycleSec == pc = "updSec" /\ UpdateAt(VU_SEC_PIN, "updMin", 0)

NextCycle ==
  \/ \E d \in CalcDelays : CycleTargets(d)
  \/ CycleSec

SpecCycle == InitCycle /\ [][NextCycle]_vars

\* ------------------------------------------------------------------------
\* Fixed-target harness: display cycles that keep computing the same three
\* targets, from several levels and targets of the three gauges.  A cycle
\* starts less or more than the rate-limit interval after the previous one.
\* ------------------------------------------------------------------------
LiveLevels == {40, 255}
LiveTargets == {0, 40}
LiveDelays == {(3 * updateInterval) \div 5, (6 * updateInterval) \div 5}

InitLive ==
  /\ pc = "fetch"
  /\ now = DrvStart
  /\ rtcPresent = TRUE
  /\ rtcRunning = TRUE
  /\ rtcMs = 0
  /\ curTime = DefaultTime
  /\ oldSec = 0
  /\ lastSecond = 0
  /\ lastUpdate = DrvStart
  /\ cur \in [Pins -> LiveLevels]
  /\ tgt \in [Pins -> LiveTargets]
  /\ out = cur
  /\ tmPin = 1
  /\ tmI = 0
  /\ call = NoCall
  /\ ownUpdate = [p \in Pins |-> NoTime]
  /\ downAt = [p \in Pins |-> NoTime]
  /\ ran = {"testMeter", "displayTime"}
  /\ drv = NoDrv

\* lines 107-121 of a cycle whose targets come out as before
LivePoll(d) ==
  /\ pc = "fetch"
  /\ now + d <= MaxLive
  /\ Pass(d)
  /\ pc' = "updSec"
  /\ UNCHANGED <<rtcPresent, rtcRunning, curTime, oldSec, lastSecond,
                 lastUpdate, cur, tgt, out, tmPin, tmI, call, ownUpdate, downAt,
                 ran, drv>>

NextLive ==
  \/ \E d \in LiveDelays : LivePoll(d)
  \/ UpdateSec
  \/ UpdateMin
  \/ UpdateHour

SpecLive == InitLive /\ [][NextLive]_vars /\ WF_vars(NextLive)

TypeOK ==
  /\ now \in 0 .. MaxMillis
  /\ cur \in [Pins -> Byte]
  /\ tgt \in [Pins -> Byte]
  /\ out \in [Pins -> Byte]

\* ------------------------------------------------------------------------
\* Properties
\* ------------------------------------------------------------------------
called == call.pin # 0
falling == called /\ call.target < call.pre

\* C1: from one display cycle to the next within a clock minute (the second
\* read from the clock has not gone back), the second-gauge target newSec
\* does not decrease.
C1_SweepNonDecreasing ==
  [][(pc = "calc" /\ oldSec <= curTime.second)
       => tgt'[VU_SEC_PIN] >= tgt[VU_SEC_PIN]]_vars

\* C3: two downward changes of one gauge, the clamp to 0 included, are at
\* least updateInterval apart.
C3_DownwardRateLimited ==
  (called /\ call.downGap # NoTime) => call.downGap >= updateInterval

\* C4: an updateMeter call writes the pin exactly once when it changed the
\* level, and not at all when it left the level as it was.
C4_WriteIffChanged ==
  called => Len(call.writes) = (IF call.post # call.pre THEN 1 ELSE 0)

\* C5: a falling gauge that can take a full step takes it as soon as more
\* than updateInterval has passed since that gauge's own latest step,
\* whatever the other gauges did.
C5_OwnTimestamp ==
  (falling /\ call.pre >= Interval /\ call.ownDue)
     => call.post = call.pre - Interval

\* C6: once the clock shows a full second past the hour (more than eight
\* rate-limit intervals after the minute target dropped from the top to 0),
\* the minute gauge has reached 0 at the end of the display cycle, and never
\* went under 0 (wrapped to a high level) on the way.
C6_MinuteFallWithin ==
  (pc = "fetch" /\ "displayTime" \in ran
     /\ curTime.minute = 0 /\ curTime.second >= 1)
     => cur[VU_MIN_PIN] = 0

\* C2: in the harness, started with the target under the level: as long as
\* the level is neither the target nor 0, a call never raises it, and changes
\* it only by one full step down (or by the clamp to 0 that ends the fall).
C2_FallsByStep ==
  (pc = "drv" /\ called /\ drv.from > call.target
     /\ call.pre # call.target /\ call.pre # 0)
     => /\ call.post <= call.pre
        /\ call.post \notin {call.pre, 0} => call.post = call.pre - Interval

\* C7: a call with the target above the level sets the level to the target
\* and writes the target to the pin, once.
C7_RiseInOneCall ==
  (called /\ call.target > call.pre)
     => /\ call.post = call.target
        /\ cur[call.pin] = call.target
        /\ call.writes = <<call.target>>
        /\ out[call.pin] = call.target

C7_Witness ==
  /\ called /\ call.target > call.pre + Interval /\ call.pre > 0
  /\ cur[call.pin] = call.target

\* C8: a call with the target equal to the level writes nothing and leaves
\* the level and the rate-limit timestamp as they were.
C8_IdleNoWrite ==
  (called /\ call.target = call.pre)
     => /\ call.writes = << >>
        /\ call.post = call.pre
        /\ cur[call.pin] = call.pre
        /\ call.luKept

C8_Witness ==
  /\ called /\ call.target = call.pre /\ call.pre = MidScale
  /\ drv.calls = 1

\* C9: every level is a byte, and a falling call never wraps: under one step
\* the level goes to 0, otherwise it stays or goes down by one step.
C9_NoWrap ==
  /\ cur \in [Pins -> Byte]
  /\ falling =>
       /\ call.post <= call.pre
       /\ IF Interval > call.pre
          THEN call.post = 0
          ELSE call.post \in {call.pre, call.pre - Interval}

C9_Witness ==
  /\ falling /\ call.pre > 0 /\ call.pre < Interval
  /\ cur[call.pin] = 0

\* C10: without a clock device the program goes from setup to the halt state
\* with all pins at mid-scale; nothing else has run or runs (no self-test, no
\* display cycle, no write of the clock), and the halt state is never left
\* nor any pin changed in it.
C10_HaltOnMissingClock ==
  /\ []((~rtcPresent /\ pc # "setup")
          => /\ pc = "halt"
             /\ out = [p \in Pins |-> MidScale]
             /\ ran = {})
  /\ [][pc = "halt" => (pc' = "halt" /\ out' = out /\ ran' = ran)]_vars

C10_Witness ==
  pc = "halt" /\ ~rtcPresent /\ now > 0

\* C11: the snapshot curTime changes only in the fetch step that opens a
\* cycle, and while the three gauges are driven the three targets are the
\* ones of that snapshot, whatever the clock device shows by then.
C11_SingleSnapshot ==
  /\ [](pc \in {"updSec", "updMin", "updHour"}
          => /\ tgt[VU_SEC_PIN] = NewSec(curTime.second, now, lastSecond)
             /\ tgt[VU_MIN_PIN] = NewMin(curTime.minute)
             /\ tgt[VU_HOUR_PIN] = NewHour(curTime.hour))
  /\ [][curTime' # curTime => (pc = "fetch" /\ pc' = "calc")]_vars

\* the clock rolled over to the next hour between the fetch and the targets
C11_Witness ==
  /\ pc = "updMin"
  /\ RtcHour(rtcMs) # curTime.hour
  /\ RtcMinute(rtcMs) # curTime.minute
  /\ RtcSecond(rtcMs) # curTime.second
  /\ tgt[VU_MIN_PIN] = NewMin(curTime.minute)

\* elapsed time from a stamp to t when millis() wrapped at most once between
TrueElapsed(stamp, t) ==
  IF t >= stamp THEN t - stamp ELSE t + (MillisMod - stamp)

\* milliseconds into the minute at the computation of the targets
SweepMillis == curTime.second * 1000 + TrueElapsed(lastSecond, now)

\* line 119 as a function of the milliseconds into the minute
SweepLevel(e) == ToByte(Map(e, 0, 60000, 0, 255))

targeted == pc \in {"updSec", "updMin", "updHour"}

\* C12: the hour target is the table entry at the position in 1..12 that is
\* congruent to the hour modulo 12: position 12 for hours 0 and 12, hour mod
\* 12 for the others.
C12_HourIndex ==
  targeted =>
    /\ \E idx \in 1 .. 12 :
         /\ (idx - curTime.hour) % 12 = 0
         /\ tgt[VU_HOUR_PIN] = hourVals[idx]
    /\ curTime.hour \in {0, 12} => tgt[VU_HOUR_PIN] = hourVals[12]
    /\ curTime.hour \notin {0, 12}
         => tgt[VU_HOUR_PIN] = hourVals[curTime.hour % 12]

C12_Witness ==
  targeted /\ curTime.hour = 23 /\ tgt[VU_HOUR_PIN] = hourVals[11]

\* C13: within the minute the level mapped from the milliseconds into the
\* minute is a byte, is not under the level mapped from any earlier
\* millisecond (one millisecond, one level's width, one second and one poll
\* earlier, and the start of the minute), is 0 at 0 and within one unit of the
\* top at 59999.
SweepEarlier(e) == {x \in {0, e - 1000, e - 236, e - PollStep, e - 1} : x >= 0}

C13_SweepMonotone ==
  (targeted /\ SweepMillis < 60000) =>
    /\ tgt[VU_SEC_PIN] \in Byte
    /\ \A e1 \in SweepEarlier(SweepMillis) : SweepLevel(e1) <= tgt[VU_SEC_PIN]
    /\ SweepMillis = 0 => tgt[VU_SEC_PIN] = 0
    /\ SweepMillis = 59999 => tgt[VU_SEC_PIN] >= 254

C13_Witness ==
  targeted /\ SweepMillis = 59999 /\ tgt[VU_SEC_PIN] = 254

\* C14 as claimed: the second target is the nearest integer to e*255/60000.
C14_RoundsNearest ==
  (targeted /\ SweepMillis < 60000) =>
    /\ 2 * (SweepMillis * 255 - tgt[VU_SEC_PIN] * 60000) <= 60000
    /\ 2 * (tgt[VU_SEC_PIN] * 60000 - SweepMillis * 255) <= 60000

\* C14 amended: the second target is e*255/60000 rounded down.
C14_RoundsDown ==
  (targeted /\ SweepMillis < 60000) =>
    /\ tgt[VU_SEC_PIN] * 60000 <= SweepMillis * 255
    /\ SweepMillis * 255 < (tgt[VU_SEC_PIN] + 1) * 60000

\* a millisecond whose exact level lies nearer to the next integer
C14_Witness ==
  /\ targeted /\ SweepMillis < 60000
  /\ 2 * (SweepMillis * 255 - tgt[VU_SEC_PIN] * 60000) > 60000

\* C16: with the anchor and the latest falling step taken before the wrap of
\* millis(), the second target is the level of the true milliseconds into the
\* minute, and the falling second gauge takes its step exactly when more than
\* updateInterval has truly passed since the latest step.
C16_WrapTolerant ==
  /\ targeted => tgt[VU_SEC_PIN] = SweepLevel(SweepMillis)
  /\ (pc = "updMin" /\ falling /\ call.pre >= Interval)
       => (call.post = call.pre - Interval
             <=> TrueElapsed(lastSecond, now) > updateInterval)

\* the counter wrapped between the stamps and the cycle, and the step is taken
C16_Witness ==
  /\ pc = "updMin" /\ now < lastSecond
  /\ falling /\ call.post = call.pre - Interval
  /\ tgt[VU_SEC_PIN] > 0

\* C15: in the cycle that starts with the three levels at 0, the snapshot
\* 00:00:30 and the anchor set in this cycle, the second gauge goes to 127 in
\* its call, the minute gauge stays at 0 without a write, and the hour gauge
\* goes to 255 in its call.
HalfMinute == [hour |-> 0, minute |-> 0, second |-> 30]

C15_HalfMinuteCycle ==
  (called /\ call.pre = 0 /\ curTime = HalfMinute
     /\ TrueElapsed(lastSecond, now) <= PollStep) =>
    /\ (pc = "updMin" /\ cur[VU_MIN_PIN] = 0 /\ cur[VU_HOUR_PIN] = 0)
         => /\ call.post = 127
            /\ call.writes = <<127>>
    /\ (pc = "updHour" /\ cur[VU_HOUR_PIN] = 0)
         => /\ call.post = 0
            /\ call.writes = << >>
            /\ cur[VU_SEC_PIN] = 127
    /\ pc = "fetch"
         => /\ call.post = 255
            /\ call.writes = <<255>>
            /\ cur[VU_SEC_PIN] = 127
            /\ cur[VU_MIN_PIN] = 0
            /\ cur[VU_HOUR_PIN] = 255

C15_Witness ==
  /\ pc = "fetch" /\ call.pin = VU_HOUR_PIN /\ call.pre = 0
  /\ curTime = HalfMinute
  /\ cur[VU_SEC_PIN] = 127 /\ cur[VU_MIN_PIN] = 0 /\ cur[VU_HOUR_PIN] = 255

\* C17: a call with the target under the level leaves the level at or above
\* the target.
C17_NotBelowTarget ==
  falling => call.post >= call.target

\* C19: when setup has ended and at the end of every display cycle, each pin
\* was last written the level tracked for its gauge.
C19_SinkMatchesTracked ==
  pc = "fetch" => \A p \in Pins : out[p] = cur[p]

\* C18: with the targets fixed and the cycles running, every gauge comes to
\* its target and stays there; a gauge that is at its target is neither moved
\* nor written again.
C18_SettlesAtTarget ==
  /\ \A p \in Pins : <>[](cur[p] = tgt[p])
  /\ [][\A p \in Pins :
          cur[p] = tgt[p] => (cur'[p] = tgt'[p] /\ out'[p] = out[p])]_vars

\* all gauges at their targets after an idle call, the latest falling step
\* later than one gauge alone could have needed
C18_Witness ==
  /\ pc = "fetch" /\ \A p \in Pins : cur[p] = tgt[p]
  /\ called /\ call.pre = call.target /\ call.writes = << >>
  /\ ULSub(lastUpdate, DrvStart) > 20 * updateInterval

====
